---- MODULE Spec2Model ----
(***************************************************************************)
(* A model of book_maker/translator: ClaudeCodeTranslator (construction,   *)
(* context buffer, sync/async bridge, translate, translate_list) and       *)
(* DeepSeekTranslator (default endpoint and model cycle).                  *)
(*                                                                         *)
(* A text is a sequence of one-character strings, so that str.strip() and  *)
(* concatenation are computed, not assumed.                                *)
(***************************************************************************)
EXTENDS Naturals, Sequences, FiniteSets, TLC

\* ------------------------------------------------------------------ bounds

\* Largest context_paragraph_limit a constructor call is given.
MaxLimit == 2
\* Calls (translate, nested or not, translate_list and direct save_context) made
\* on one adapter.
MaxCalls == 3
\* Longest list given to translate_list.
MaxListLen == 2
\* Longest model list given to DeepSeekTranslator.set_model_list.
MaxModels == 2

\* ------------------------------------------------------------------- texts

Whitespace == {" ", "\n"}

RECURSIVE lstrip(_)
lstrip(s) ==
    IF s = <<>> THEN s
    ELSE IF Head(s) \in Whitespace THEN lstrip(Tail(s)) ELSE s

RECURSIVE rstrip(_)
rstrip(s) ==
    IF s = <<>> THEN s
    ELSE IF s[Len(s)] \in Whitespace THEN rstrip(SubSeq(s, 1, Len(s) - 1)) ELSE s

\* str.strip()
strip(s) == rstrip(lstrip(s))

\* response_text += block.text, over the text blocks of the streamed messages
RECURSIVE JoinBlocks(_)
JoinBlocks(blocks) ==
    IF blocks = <<>> THEN <<>> ELSE Head(blocks) \o JoinBlocks(Tail(blocks))

\* An empty or whitespace-only text.
Blank(s) == \A i \in 1..Len(s) : s[i] \in Whitespace

\* Source texts given to translate, and the entries of a list given to
\* translate_list (these also hold the empty and the whitespace-only text).
SourceTexts == { <<"a">>, <<" ", "b">> }
ListTexts == SourceTexts \cup { <<>>, <<" ">> }

RECURSIVE SeqsUpTo(_, _)
SeqsUpTo(S, n) ==
    IF n = 0 THEN { <<>> }
    ELSE LET shorter == SeqsUpTo(S, n - 1)
         IN  shorter \cup { Append(s, e) : s \in shorter, e \in S }

\* ---------------------------------------------------------------- outcomes

NoError == [type |-> "", msg |-> ""]
NoOutcome == [kind |-> "none", val |-> <<>>, err |-> NoError]
Returned(v) == [kind |-> "ok", val |-> v, err |-> NoError]
Raised(e) == [kind |-> "err", val |-> <<>>, err |-> e]

\* What the SDK's query(...) streams: the text blocks of its messages.
QueryStreams == { << <<" ", "x">>, <<" ", "y", "\n">> >>, << <<" ">> >> }
\* What a failing backend call raises.
BackendErrors == { [type |-> "RuntimeError", msg |-> "boom"],
                   [type |-> "ConnectionError", msg |-> "boom"] }
\* except RuntimeError: the class and its subclasses
RuntimeErrorTypes == { "RuntimeError", "NotImplementedError", "RecursionError" }
\* asyncio.run called in a thread whose event loop is running
RunningLoopError ==
    [type |-> "RuntimeError",
     msg |-> "asyncio.run() cannot be called from a running event loop"]

\* What the fallback Claude adapter's translate gives.
FallbackOutcomes == { Returned(<<"f">>),
                      Raised([type |-> "ConnectionError", msg |-> "boom"]) }

\* ------------------------------------------------------------- environment

EnvUnset == [set |-> FALSE, val |-> ""]
EnvSet(v) == [set |-> TRUE, val |-> v]
EnvNames == { "ANTHROPIC_BASE_URL", "ANTHROPIC_MODEL" }
CallerEnvValues == { EnvUnset, EnvSet(""), EnvSet("caller") }
EnvDefault(name) ==
    IF name = "ANTHROPIC_BASE_URL" THEN "https://open.bigmodel.cn/api/anthropic"
    ELSE "glm-4.5"

\* ------------------------------------------------------------------- state

VARIABLES
    HAS_CLAUDE_CODE_SDK,      \* module level: the SDK import succeeded
    state,                    \* "new", "ready", "failed": the constructor's result
    ctor_error,               \* what the constructor raised ("" when nothing)
    ctor_key,                 \* whether the constructor was given a credential
    agentic,                  \* self.agentic
    fallback,                 \* self._fallback: "None" or "Claude"
    fallback_has_translate_list,  \* hasattr(self._fallback, 'translate_list')
    context_flag,             \* self.context_flag
    context_paragraph_limit,  \* self.context_paragraph_limit
    context_list,             \* self.context_list
    context_translated_list,  \* self.context_translated_list
    environ,                  \* os.environ, the two variables the adapter reads
    environ0,                 \* the caller's environment, as the process started
    pc,                       \* "idle", or "future_result": blocked in future.result()
    cur,                      \* the current (or last) translate call: text, loop
    worker,                   \* the pool's worker thread: "none", "running", "done"
    future,                   \* the outcome held by the submitted future
    coro_out,                 \* what the coroutine _agentic_translate did
    bridge_out,               \* what _sync_wrapper gave its caller
    fallback_out,             \* what self._fallback.translate gave
    ret,                      \* what the operation just completed gave its caller
    ctx_before,               \* the context buffer as the last translate call began
    last_prompt,              \* the prompt of the last SDK query
    calls,                    \* calls made on the adapter (the model's budget)
    translate_calls,          \* translate calls begun
    query_calls,              \* SDK query(...) invocations
    bridge_calls,             \* _sync_wrapper invocations
    fallback_calls,           \* self._fallback.translate invocations
    saved,                    \* every (text, t_text) given to save_context, in order
    tl,                       \* the translate_list call in progress (or last)
    ds                        \* the DeepSeekTranslator object

\* What no call on a constructed ClaudeCodeTranslator changes.
config_vars == <<HAS_CLAUDE_CODE_SDK, state, ctor_error, ctor_key, agentic, fallback,
                 fallback_has_translate_list, context_flag, context_paragraph_limit,
                 ds>>
ctx_vars == <<context_list, context_translated_list, saved>>
env_vars == <<environ, environ0>>
coro_vars == <<environ, last_prompt, query_calls, coro_out>>
bridge_vars == <<pc, cur, worker, future, bridge_out, fallback_out, bridge_calls>>
count_vars == <<calls, translate_calls, fallback_calls>>

vars == <<HAS_CLAUDE_CODE_SDK, state, ctor_error, ctor_key, agentic, fallback,
          fallback_has_translate_list, context_flag, context_paragraph_limit,
          context_list, context_translated_list, environ, environ0, pc, cur,
          worker, future, coro_out, bridge_out, fallback_out, ret, ctx_before,
          last_prompt,
          calls, translate_calls, query_calls, bridge_calls, fallback_calls,
          saved, tl, ds>>

NoModels == [given |-> FALSE, list |-> <<>>]
NoDeepSeek == [state |-> "new", api_arg |-> "None", api_base |-> "",
               model_list |-> <<>>, pos |-> 0, model |-> "",
               set_called |-> FALSE, set_arg |-> NoModels]

NoCall == [text |-> <<>>, loop |-> FALSE]
NoList == [st |-> "none", xs |-> <<>>, loop |-> FALSE, out |-> <<>>,
           made |-> <<>>, err |-> NoError, backend0 |-> 0]

\* The interpreter before the adapter is constructed: the SDK is importable or
\* not; the caller's environment is e0.
InitWith(e0) ==
    /\ HAS_CLAUDE_CODE_SDK \in BOOLEAN
    /\ state = "new"
    /\ ctor_error = ""
    /\ ctor_key = FALSE
    /\ agentic = FALSE
    /\ fallback = "None"
    /\ fallback_has_translate_list = FALSE
    /\ context_flag = FALSE
    /\ context_paragraph_limit = 0
    /\ context_list = <<>>
    /\ context_translated_list = <<>>
    /\ environ0 = e0
    /\ environ = e0
    /\ pc = "idle"
    /\ cur = NoCall
    /\ worker = "none"
    /\ future = NoOutcome
    /\ coro_out = NoOutcome
    /\ bridge_out = NoOutcome
    /\ fallback_out = NoOutcome
    /\ ret = NoOutcome
    /\ ctx_before = << <<>>, <<>> >>
    /\ last_prompt = <<>>
    /\ calls = 0
    /\ translate_calls = 0
    /\ query_calls = 0
    /\ bridge_calls = 0
    /\ fallback_calls = 0
    /\ saved = <<>>
    /\ tl = NoList
    /\ ds = NoDeepSeek

\* A caller that sets neither variable.
Init == InitWith([n \in EnvNames |-> EnvUnset])

\* A caller whose environment has each variable unset, empty or set.
InitEnv == \E e0 \in [EnvNames -> CallerEnvValues] : InitWith(e0)

\* ------------------------------------------------------------ construction

\* Credentials a caller gives: None, the empty string, a key.
Keys == { "None", "", "sk-key" }
\* not key
KeyMissing(key) == key \in { "None", "" }

\* A constructor that falls back to the plain adapter when the SDK is missing.
ConstructorResultSilentFallback(p_agentic, has_sdk, key) ==
    IF ~p_agentic \/ ~has_sdk
        THEN IF KeyMissing(key)
                 THEN [error |-> "ValueError", fallback |-> "None"]
                 ELSE [error |-> "", fallback |-> "Claude"]
    ELSE [error |-> "", fallback |-> "None"]

\* __init__'s decision: what it raises ("" when nothing) and self._fallback.
ConstructorResult(p_agentic, has_sdk, key) ==
    IF p_agentic /\ ~has_sdk
        THEN [error |-> "ImportError", fallback |-> "None"]
    ELSE IF ~p_agentic \/ ~has_sdk
        THEN IF KeyMissing(key)
                 THEN [error |-> "ValueError", fallback |-> "None"]
                 ELSE [error |-> "", fallback |-> "Claude"]
    ELSE [error |-> "", fallback |-> "None"]

\* ClaudeCodeTranslator(key, language, context_flag=..., context_paragraph_limit=...,
\* agentic=...)
Construct ==
    /\ state = "new"
    /\ \E p_agentic \in BOOLEAN, key \in Keys, p_flag \in BOOLEAN,
          p_limit \in 0..MaxLimit, has_tl \in BOOLEAN :
         LET r == ConstructorResult(p_agentic, HAS_CLAUDE_CODE_SDK, key) IN
         /\ agentic' = p_agentic
         /\ ctor_key' = ~KeyMissing(key)
         /\ ctor_error' = r.error
         /\ fallback' = r.fallback
         /\ fallback_has_translate_list' = (r.fallback = "Claude" /\ has_tl)
         /\ state' = IF r.error = "" THEN "ready" ELSE "failed"
         /\ context_flag' = (r.error = "" /\ p_flag)
         /\ context_paragraph_limit' = IF r.error = "" THEN p_limit ELSE 0
    /\ UNCHANGED <<HAS_CLAUDE_CODE_SDK, ctx_vars, env_vars, bridge_vars, coro_out,
                   ret, ctx_before, last_prompt, query_calls, count_vars, tl, ds>>

\* ---------------------------------------------------------- context buffer

\* A save_context that never evicts.
save_context_no_evict(flag, limit, cl, ctl, text, t_text) ==
    IF ~flag THEN <<cl, ctl>> ELSE <<Append(cl, text), Append(ctl, t_text)>>

\* A save_context that evicts the newest pair (pop() for pop(0)).
save_context_evict_newest(flag, limit, cl, ctl, text, t_text) ==
    IF ~flag THEN <<cl, ctl>>
    ELSE IF Len(cl) + 1 > limit THEN <<cl, ctl>>
    ELSE <<Append(cl, text), Append(ctl, t_text)>>

\* save_context(text, t_text): the two lists it leaves.
save_context(flag, limit, cl, ctl, text, t_text) ==
    IF ~flag THEN <<cl, ctl>>
    ELSE LET a == Append(cl, text)
             b == Append(ctl, t_text)
         IN  IF Len(a) > limit THEN <<Tail(a), Tail(b)>> ELSE <<a, b>>

\* create_context_messages(): the rendered context, as the pieces concatenated.
RECURSIVE RenderPairs(_, _)
RenderPairs(cl, ctl) ==
    IF cl = <<>> \/ ctl = <<>> THEN <<>>
    ELSE <<"Original: ">> \o Head(cl) \o <<"\nTranslation: ">> \o Head(ctl)
         \o <<"\n\n">> \o RenderPairs(Tail(cl), Tail(ctl))

create_context_messages(flag, cl, ctl) ==
    IF ~flag \/ cl = <<>> THEN <<>>
    ELSE <<"Previous context:\n">> \o RenderPairs(cl, ctl)

\* A new call on the adapter: what the caller saw of the call before it (its
\* arguments, its result, the worker that served it) is gone.
Forget ==
    /\ cur' = NoCall
    /\ worker' = "none"
    /\ future' = NoOutcome
    /\ coro_out' = NoOutcome
    /\ bridge_out' = NoOutcome
    /\ fallback_out' = NoOutcome
    /\ ret' = NoOutcome
    /\ ctx_before' = << <<>>, <<>> >>
    /\ last_prompt' = <<>>

\* A direct call of save_context(text, t_text).
SaveContextCall ==
    /\ state = "ready"
    /\ pc = "idle"
    /\ tl.st # "run"
    /\ calls < MaxCalls
    /\ \E text \in SourceTexts, t_text \in { strip(JoinBlocks(q)) : q \in QueryStreams } :
         LET r == save_context(context_flag, context_paragraph_limit,
                               context_list, context_translated_list, text, t_text)
         IN  /\ context_list' = r[1]
             /\ context_translated_list' = r[2]
             /\ saved' = Append(saved, <<text, t_text>>)
    /\ calls' = calls + 1
    /\ Forget
    /\ tl' = NoList
    /\ UNCHANGED <<config_vars, env_vars, pc, bridge_calls, query_calls,
                   translate_calls, fallback_calls>>

\* ------------------------------------------------------- sync/async bridge

\* _sync_wrapper(coro), given whether a loop runs in the caller's thread and what
\* the coroutine does. With a running loop the coroutine runs on the pool's
\* worker and future.result() re-raises its error inside the try block, where
\* "except RuntimeError" takes a RuntimeError for get_running_loop's own and
\* calls asyncio.run(coro) in the thread whose loop is running.
sync_wrapper(loop, out) ==
    IF loop /\ out.kind = "err" /\ out.err.type \in RuntimeErrorTypes
        THEN Raised(RunningLoopError)
        ELSE out

\* A bridge that does not wait for the worker.
FutureReadyNoWait == TRUE

\* future.result() returns once the worker has run the coroutine.
FutureReady == worker = "done"

\* ------------------------------------------------------ agentic translation

PromptSysMsg ==
    "You are a professional translator. Always provide only the translation without any additional commentary or explanations."
Language == "zh-hans"

\* full_prompt of _agentic_translate, as the pieces concatenated.
FullPrompt(flag, cl, ctl, text) ==
    LET context == create_context_messages(flag, cl, ctl) IN
    <<"System: ", PromptSysMsg, "\n\n">>
    \o (IF context # <<>> THEN context \o <<"\n">> ELSE <<>>)
    \o <<"Translate the following text into ", Language,
         ". Provide ONLY the translation without any additional text or explanation:\n\n">>
    \o text

\* What query(...) does: it streams text blocks, or it raises.
Streams(blocks) == [kind |-> "ok", blocks |-> blocks, err |-> NoError]
Fails(e) == [kind |-> "err", blocks |-> <<>>, err |-> e]
Backend == { Streams(b) : b \in QueryStreams } \cup { Fails(e) : e \in BackendErrors }

\* if not os.getenv(name): os.environ[name] = default
SetEnvDefault(env, name) ==
    IF ~env[name].set \/ env[name].val = "" THEN EnvSet(EnvDefault(name)) ELSE env[name]

\* The value _agentic_translate returns, or the error it raises.
agentic_translate(q) ==
    IF q.kind = "err" THEN Raised(q.err) ELSE Returned(strip(JoinBlocks(q.blocks)))

\* The body of the coroutine _agentic_translate(text), the backend doing q.
RunCoroutine(text, q) ==
    /\ last_prompt' = FullPrompt(context_flag, context_list, context_translated_list, text)
    /\ environ' = [n \in EnvNames |-> SetEnvDefault(environ, n)]
    /\ query_calls' = query_calls + 1
    /\ coro_out' = agentic_translate(q)

\* What translate_list's loop does with the value translate(text) gave it.
ListAfter(t, text, out) ==
    IF t.st # "run" THEN t
    ELSE IF out.kind = "err" THEN [t EXCEPT !.st = "raised", !.err = out.err]
    ELSE [t EXCEPT !.out = Append(@, out.val),
                   !.made = Append(@, [text |-> text, called |-> TRUE, val |-> out.val])]

\* translate, after _sync_wrapper gave bout: save_context and return, or the
\* error goes on to the caller.
Complete(t, text, bout) ==
    /\ bridge_out' = bout
    /\ ret' = bout
    /\ pc' = "idle"
    /\ tl' = ListAfter(t, text, bout)
    /\ IF bout.kind # "err" /\ context_flag
         THEN LET r == save_context(context_flag, context_paragraph_limit,
                                    context_list, context_translated_list,
                                    text, bout.val)
              IN  /\ context_list' = r[1]
                  /\ context_translated_list' = r[2]
                  /\ saved' = Append(saved, <<text, bout.val>>)
         ELSE UNCHANGED ctx_vars

\* A translate that never takes the fallback branch.
UseFallbackNever == FALSE

\* self._fallback is truthy
UseFallback == fallback # "None"

\* translate(text), called in a thread whose event loop is running (loop) or not;
\* t is the translate_list call it is made by (NoList: by the adapter's caller).
StartTranslate(t, text, loop) ==
    /\ translate_calls' = translate_calls + 1
    /\ cur' = [text |-> text, loop |-> loop]
    /\ ctx_before' = <<context_list, context_translated_list>>
    /\ IF UseFallback
         THEN \E o \in FallbackOutcomes :
                /\ fallback_calls' = fallback_calls + 1
                /\ fallback_out' = o
                /\ ret' = o
                /\ tl' = ListAfter(t, text, o)
                /\ worker' = "none"
                /\ future' = NoOutcome
                /\ coro_out' = NoOutcome
                /\ bridge_out' = NoOutcome
                /\ last_prompt' = <<>>
                /\ UNCHANGED <<ctx_vars, environ, query_calls, pc, bridge_calls>>
         ELSE /\ bridge_calls' = bridge_calls + 1
              /\ fallback_out' = NoOutcome
              /\ UNCHANGED fallback_calls
              /\ IF loop
                   THEN /\ worker' = "running"
                        /\ pc' = "future_result"
                        /\ future' = NoOutcome
                        /\ coro_out' = NoOutcome
                        /\ bridge_out' = NoOutcome
                        /\ ret' = NoOutcome
                        /\ last_prompt' = <<>>
                        /\ tl' = t
                        /\ UNCHANGED <<ctx_vars, environ, query_calls>>
                   ELSE /\ worker' = "none"
                        /\ future' = NoOutcome
                        /\ \E q \in Backend :
                             /\ RunCoroutine(text, q)
                             /\ Complete(t, text, sync_wrapper(FALSE, agentic_translate(q)))

\* A call of translate(text).
TranslateCall ==
    /\ state = "ready"
    /\ pc = "idle"
    /\ tl.st # "run"
    /\ calls < MaxCalls
    /\ calls' = calls + 1
    /\ \E text \in SourceTexts, loop \in BOOLEAN : StartTranslate(NoList, text, loop)
    /\ UNCHANGED <<config_vars, environ0>>

\* The pool's worker thread runs asyncio.run(coro).
WorkerRun ==
    /\ worker = "running"
    /\ \E q \in Backend :
         /\ RunCoroutine(cur.text, q)
         /\ future' = agentic_translate(q)
    /\ worker' = "done"
    /\ UNCHANGED <<config_vars, ctx_vars, environ0, pc, cur, bridge_out, fallback_out,
                   bridge_calls,
                   ret, ctx_before, count_vars, tl>>

\* future.result() returns or raises; the pool is shut down; translate goes on.
FutureResult ==
    /\ pc = "future_result"
    /\ FutureReady
    /\ Complete(tl, cur.text, sync_wrapper(TRUE, future))
    /\ UNCHANGED <<config_vars, env_vars, cur, worker, future, coro_out, fallback_out,
                   last_prompt, query_calls, bridge_calls, ctx_before, count_vars>>

\* ---------------------------------------------------------- translate_list

\* "if text:" for "if text.strip():"
IsTranslatedNoStrip(text) == text # <<>>

\* if text.strip(): the entry is given to translate
IsTranslated(text) == strip(text) # <<>>

\* translated_list.append(""), for an entry translate is not called for
SkipEntry(t, text) ==
    [t EXCEPT !.out = Append(@, <<>>),
              !.made = Append(@, [text |-> text, called |-> FALSE, val |-> <<>>])]

\* self._fallback and hasattr(self._fallback, 'translate_list')
DelegateList == UseFallback /\ fallback_has_translate_list

\* The fallback adapter's own translate_list (the adapter contract: one output
\* per entry, in order, the empty and whitespace-only entries passed through
\* as "" with no backend call), or the error of its backend.
FallbackTranslateList(xs, loop) ==
    \/ \E rs \in [1..Len(xs) -> { o.val : o \in { f \in FallbackOutcomes : f.kind = "ok" } }] :
         tl' = [st |-> "ret", xs |-> xs, loop |-> loop,
                out |-> [i \in 1..Len(xs) |->
                           IF ~Blank(xs[i]) THEN rs[i] ELSE <<>>],
                made |-> [i \in 1..Len(xs) |->
                           [text |-> xs[i], called |-> ~Blank(xs[i]),
                            val |-> IF ~Blank(xs[i]) THEN rs[i] ELSE <<>>]],
                err |-> NoError, backend0 |-> query_calls + fallback_calls]
    \/ /\ \E i \in 1..Len(xs) : ~Blank(xs[i])
       /\ \E o \in { f \in FallbackOutcomes : f.kind = "err" } :
            tl' = [st |-> "raised", xs |-> xs, loop |-> loop, out |-> <<>>,
                   made |-> <<>>, err |-> o.err, backend0 |-> query_calls + fallback_calls]

\* A call of translate_list(text_list): delegated, or the loop begins.
TranslateListCall ==
    /\ state = "ready"
    /\ pc = "idle"
    /\ tl.st # "run"
    /\ \E xs \in SeqsUpTo(ListTexts, MaxListLen), loop \in BOOLEAN :
         /\ calls + 1 + Len(xs) <= MaxCalls
         /\ IF DelegateList
              THEN FallbackTranslateList(xs, loop)
              ELSE tl' = [st |-> "run", xs |-> xs, loop |-> loop, out |-> <<>>,
                          made |-> <<>>, err |-> NoError, backend0 |-> query_calls + fallback_calls]
    /\ calls' = calls + 1
    /\ Forget
    /\ UNCHANGED <<config_vars, ctx_vars, env_vars, pc, bridge_calls, query_calls,
                   translate_calls, fallback_calls>>

\* One turn of the loop "for text in text_list".
TranslateListStep ==
    /\ tl.st = "run"
    /\ pc = "idle"
    /\ Len(tl.out) < Len(tl.xs)
    /\ LET text == tl.xs[Len(tl.out) + 1] IN
       IF IsTranslated(text)
         THEN /\ calls' = calls + 1
              /\ StartTranslate(tl, text, tl.loop)
         ELSE /\ tl' = SkipEntry(tl, text)
              /\ UNCHANGED <<ctx_vars, environ, bridge_vars, coro_out, ret, ctx_before,
                             last_prompt, query_calls, count_vars>>
    /\ UNCHANGED <<config_vars, environ0>>

\* return translated_list
TranslateListReturn ==
    /\ tl.st = "run"
    /\ pc = "idle"
    /\ Len(tl.out) = Len(tl.xs)
    /\ tl' = [tl EXCEPT !.st = "ret"]
    /\ UNCHANGED <<config_vars, ctx_vars, env_vars, bridge_vars, coro_out, ret,
                   ctx_before, last_prompt, query_calls, count_vars>>

\* ------------------------------------------------------ DeepSeekTranslator

DEFAULT_API_BASE == "https://api.deepseek.com"
DEFAULT_MODEL_LIST == <<"deepseek-chat">>

\* Base URLs a caller gives: None, the empty string, a URL.
ApiBases == { "None", "", "https://deepseek.example/v1" }
ModelNames == { "deepseek-chat", "deepseek-reasoner", "deepseek-v3" }
\* Model lists a caller gives: None, or a list.
ModelListArgs ==
    { NoModels } \cup { [given |-> TRUE, list |-> l] : l \in SeqsUpTo(ModelNames, MaxModels) }

\* api_base = api_base or self.DEFAULT_API_BASE
deepseek_api_base(api_base) ==
    IF api_base \in { "None", "" } THEN DEFAULT_API_BASE ELSE api_base

\* A set_model_list that hands an empty list on as it is.
deepseek_model_list_no_default(arg) == arg.list

\* if not model_list: model_list = self.DEFAULT_MODEL_LIST
deepseek_model_list(arg) ==
    IF ~arg.given \/ arg.list = <<>> THEN DEFAULT_MODEL_LIST ELSE arg.list

\* ChatGPTAPI.__init__ keeps the base URL it is given for its requests.
ChatGPTAPI_init(d, api_base) == [d EXCEPT !.api_base = api_base]

\* ChatGPTAPI.set_model_list: the cycle over the list it is given.
ChatGPTAPI_set_model_list(d, model_list) ==
    [d EXCEPT !.model_list = model_list, !.pos = 1]

\* DeepSeekTranslator(key, language, api_base=...)
DeepSeekConstruct ==
    /\ ds.state = "new"
    /\ \E api_base \in ApiBases :
         ds' = [ChatGPTAPI_init(ds, deepseek_api_base(api_base))
                  EXCEPT !.state = "ready", !.api_arg = api_base,
                         !.model_list = DEFAULT_MODEL_LIST, !.pos = 1]
    /\ UNCHANGED <<HAS_CLAUDE_CODE_SDK, state, ctor_error, ctor_key, agentic, fallback,
                   fallback_has_translate_list, context_flag, context_paragraph_limit,
                   ctx_vars, env_vars, bridge_vars, coro_out, ret, ctx_before,
                   last_prompt, query_calls, count_vars, tl>>

\* set_model_list(model_list)
DeepSeekSetModelList ==
    /\ ds.state = "ready"
    /\ \E arg \in ModelListArgs :
         ds' = [ChatGPTAPI_set_model_list(ds, deepseek_model_list(arg))
                  EXCEPT !.set_called = TRUE, !.set_arg = arg]
    /\ UNCHANGED <<HAS_CLAUDE_CODE_SDK, state, ctor_error, ctor_key, agentic, fallback,
                   fallback_has_translate_list, context_flag, context_paragraph_limit,
                   ctx_vars, env_vars, bridge_vars, coro_out, ret, ctx_before,
                   last_prompt, query_calls, count_vars, tl>>

\* next(self.model_list): the model of the next request, round-robin
DeepSeekNextModel ==
    /\ ds.state = "ready"
    /\ ds' = [ds EXCEPT !.model = ds.model_list[ds.pos],
                        !.pos = (ds.pos % Len(ds.model_list)) + 1]
    /\ UNCHANGED <<HAS_CLAUDE_CODE_SDK, state, ctor_error, ctor_key, agentic, fallback,
                   fallback_has_translate_list, context_flag, context_paragraph_limit,
                   ctx_vars, env_vars, bridge_vars, coro_out, ret, ctx_before,
                   last_prompt, query_calls, count_vars, tl>>

\* ------------------------------------------------------------------ claims

AgenticReady == state = "ready" /\ ~UseFallback
\* A translate call made through the bridge has returned or raised.
BridgeReturned == AgenticReady /\ pc = "idle" /\ cur # NoCall

\* The last n elements of s.
LastN(s, n) == IF Len(s) <= n THEN s ELSE SubSeq(s, Len(s) - n + 1, Len(s))

\* C1: the two lists of the context buffer always have the same length, and that
\* length never exceeds context_paragraph_limit, whatever save_context, translate
\* and translate_list calls were made.
C1_ContextBounded ==
    state = "ready" =>
        /\ Len(context_list) = Len(context_translated_list)
        /\ Len(context_list) <= context_paragraph_limit

\* A full buffer that has evicted, filled at least in part by translate.
C1_Witness ==
    /\ state = "ready" /\ context_flag /\ context_paragraph_limit >= 1
    /\ Len(saved) > context_paragraph_limit
    /\ Len(context_list) = context_paragraph_limit
    /\ translate_calls > 0

\* C2: with context enabled and cap N, once more than N pairs were given to
\* save_context the buffer holds exactly the last N of them, oldest first.
C2_LastNPairs ==
    (state = "ready" /\ context_flag /\ Len(saved) > context_paragraph_limit) =>
        LET n == context_paragraph_limit
            m == Len(saved)
        IN  /\ Len(context_list) = n
            /\ Len(context_translated_list) = n
            /\ \A i \in 1..n :
                 /\ context_list[i] = saved[m - n + i][1]
                 /\ context_translated_list[i] = saved[m - n + i][2]

\* Cap 2, three pairs saved, the two retained ones different.
C2_Witness ==
    /\ state = "ready" /\ context_flag /\ context_paragraph_limit = 2
    /\ Len(saved) = 3
    /\ saved[2] # saved[3]
    /\ context_list = <<saved[2][1], saved[3][1]>>

\* C3: an error raised inside the coroutine reaches the caller of _sync_wrapper
\* with the same type and message, with and without a running loop.
C3_ErrorPropagates ==
    (BridgeReturned /\ coro_out.kind = "err") => bridge_out = coro_out

\* C4: translate_list returns one output per entry, in the order of the entries:
\* the value translate gave for a non-blank entry, "" for an empty or
\* whitespace-only one, for which no backend call is made.
C4_TranslateList ==
    tl.st = "ret" =>
        /\ Len(tl.out) = Len(tl.xs)
        /\ Len(tl.made) = Len(tl.xs)
        /\ \A i \in 1..Len(tl.xs) :
             /\ tl.made[i].text = tl.xs[i]
             /\ tl.out[i] = tl.made[i].val
             /\ tl.made[i].called = ~Blank(tl.xs[i])
             /\ Blank(tl.xs[i]) => tl.out[i] = <<>>
        /\ ~DelegateList =>
             query_calls + fallback_calls - tl.backend0
                = Cardinality({ i \in 1..Len(tl.xs) : ~Blank(tl.xs[i]) })

\* The loop returned for a whitespace-only entry followed by a translated one.
C4_Witness ==
    /\ tl.st = "ret" /\ AgenticReady
    /\ Len(tl.xs) = 2
    /\ tl.xs[1] = <<" ">> /\ ~Blank(tl.xs[2])
    /\ tl.out[1] = <<>> /\ tl.out[2] # <<>>
    /\ query_calls = tl.backend0 + 1

C6_FallbackDelegation ==
    (state = "ready" /\ ~agentic /\ ctor_key) =>
        /\ fallback = "Claude"
        /\ fallback_calls = translate_calls
        /\ query_calls = 0
        /\ bridge_calls = 0
        /\ ret = fallback_out
        /\ saved = <<>> => (context_list = <<>> /\ context_translated_list = <<>>)

\* Two translate calls were delegated, the second made by translate_list's loop.
C6_Witness ==
    /\ state = "ready" /\ ~agentic /\ context_flag
    /\ fallback_calls = 2
    /\ tl.st = "ret" /\ Len(tl.xs) = 1
    /\ ret = Returned(<<"f">>)

\* C7: a variable the caller's environment set, to any value, the empty string
\* included, keeps that value whatever translate calls are made.
C7_EnvNeverOverwritten ==
    \A n \in EnvNames : environ0[n].set => environ[n] = environ0[n]

\* C8: when the coroutine completes normally the bridge returns its result, with
\* and without a running loop; with one, the caller returns only after the
\* worker has run the coroutine to its end.
C8_BridgeReturnsResult ==
    BridgeReturned =>
        /\ coro_out.kind # "none"
        /\ coro_out.kind = "ok" => bridge_out = coro_out
        /\ cur.loop => worker = "done"
        /\ ~cur.loop => worker = "none"

\* A call made inside a running loop returned the worker's result.
C8_Witness ==
    /\ BridgeReturned /\ cur.loop /\ worker = "done"
    /\ coro_out.kind = "ok" /\ coro_out.val = <<"x", " ", "y">>
    /\ bridge_out = coro_out /\ ret = coro_out

\* C9: with no base URL (None or "") DeepSeekTranslator uses
\* https://api.deepseek.com, and a URL given is kept; its model list is
\* ["deepseek-chat"] until set_model_list is called, then the list given, or
\* ["deepseek-chat"] again when that list is empty or None.
C9_DeepSeekDefaults ==
    ds.state = "ready" =>
        /\ ds.api_base = IF ds.api_arg \in { "None", "" }
                            THEN "https://api.deepseek.com" ELSE ds.api_arg
        /\ ~ds.set_called => ds.model_list = <<"deepseek-chat">>
        /\ ds.set_called =>
             ds.model_list = IF ds.set_arg.given /\ ds.set_arg.list # <<>>
                                THEN ds.set_arg.list ELSE <<"deepseek-chat">>
        /\ (~ds.set_called /\ ds.model # "") => ds.model = "deepseek-chat"

\* No base URL given, an empty model list set, and a request made.
C9_Witness ==
    /\ ds.state = "ready" /\ ds.api_arg = "None" /\ ds.api_base = DEFAULT_API_BASE
    /\ ds.set_called /\ ds.set_arg = [given |-> TRUE, list |-> <<>>]
    /\ ds.model_list = <<"deepseek-chat">> /\ ds.model = "deepseek-chat"

\* What C10 says of a translate call in agentic mode, the identity of a
\* propagated error apart: one SDK query per call; a call that returns leaves the
\* buffer it found with the pair (text, returned text) appended and the oldest
\* evicted beyond the cap; a call that raises leaves the buffer as it found it;
\* the prompt holds the pairs the buffer held as the call began, oldest first;
\* with context disabled the buffer is empty and so is the context text.
TranslateContextOtherwise ==
    /\ (AgenticReady /\ pc = "idle") => query_calls = translate_calls
    /\ (BridgeReturned /\ ret.kind = "ok" /\ context_flag) =>
         /\ context_list
              = LastN(Append(ctx_before[1], cur.text), context_paragraph_limit)
         /\ context_translated_list
              = LastN(Append(ctx_before[2], ret.val), context_paragraph_limit)
         /\ saved # <<>> /\ saved[Len(saved)] = <<cur.text, ret.val>>
    /\ (BridgeReturned /\ ret.kind = "err") =>
         <<context_list, context_translated_list>> = ctx_before
    /\ BridgeReturned =>
         last_prompt = FullPrompt(context_flag, ctx_before[1], ctx_before[2], cur.text)
    /\ (state = "ready" /\ ~context_flag) =>
         /\ context_list = <<>> /\ context_translated_list = <<>>
         /\ create_context_messages(context_flag, context_list,
                                    context_translated_list) = <<>>

\* C10: in agentic mode a translate call that returns appends its pair after the
\* backend call, so that the next prompt holds the retained pairs oldest first;
\* one whose backend call fails raises that error, the buffer unchanged, after
\* exactly one backend invocation; with context disabled the buffer stays empty.
C10_TranslateContext ==
    /\ TranslateContextOtherwise
    /\ (BridgeReturned /\ coro_out.kind = "err") =>
         (ret.kind = "err" /\ ret.err = coro_out.err)

\* ---------------------------------------------------------- specifications

Next ==
    \/ Construct
    \/ SaveContextCall
    \/ TranslateCall
    \/ WorkerRun
    \/ FutureResult
    \/ TranslateListCall
    \/ TranslateListStep
    \/ TranslateListReturn

Spec == Init /\ [][Next]_vars

\* The same adapter, for every environment the caller may start it in.
SpecEnv == InitEnv /\ [][Next]_vars

NextDeepSeek ==
    \/ DeepSeekConstruct
    \/ DeepSeekSetModelList
    \/ DeepSeekNextModel

\* A DeepSeekTranslator and the calls on it.
SpecDeepSeek == Init /\ [][NextDeepSeek]_vars

====
